---------------------------- MODULE Spec2Model ----------------------------
(***************************************************************************)
(* Billing ledger of samda_accounts_mvp: document numbering, invoice       *)
(* totals, payment allocation, invoice and receipt issuance.               *)
(*                                                                         *)
(* Money is an integer number of hundredths (Decimal with 2 places), a     *)
(* quantity is an integer number of hundredths, a tax rate an integer      *)
(* number of ten-thousandths (0.1500 is 1500).                             *)
(*                                                                         *)
(* The database holds the committed rows.  Every request is handled by a   *)
(* worker of the multi-worker server; a worker's position (pc) advances    *)
(* one database statement (or one group of statements no other worker can  *)
(* observe apart) at a time.  Statements outside transaction.atomic commit *)
(* at once (autocommit); the writes of a transaction.atomic block are kept *)
(* by the worker and reach the database at its commit, the rows it wrote   *)
(* or locked (select_for_update) staying locked until then.                *)
(***************************************************************************)
EXTENDS Integers, Sequences, FiniteSets, Bags, TLC

\* ------------------------------------------------------------------ bounds

\* the invoices and payments the database comes to hold, together
MaxRows == 2
\* the changes an administrator makes (to the tax profiles, to an invoice)
MaxProfileChanges == 1
\* the lines of an invoice recompute_totals is applied to on its own
MaxLines == 2

Workers == {"w1", "w2"}
NoWorker == "nobody"
\* the server hands a request to the first free worker
WorkerRank(w) == IF w = "w1" THEN 1 ELSE 2

\* the amounts a caller may post to the allocation form, and a payment's amount
Amounts == {3000, 6000}
PaymentAmounts == {5000, 10000}
\* the lines a caller may post with a new invoice: qty 1.00 at 50.00
LineSets == { << [qty |-> 100, unit_price |-> 5000] >> }

\* --------------------------------------------------------------- constants

Keys == {"INV_VAT", "INV_NONVAT", "RECEIPT"}

DefaultPrefix == "SAMDA/"

SeedPrefix(key) ==
    CASE key = "INV_VAT" -> "SAMDA/VAT/"
      [] key = "INV_NONVAT" -> "SAMDA/INV/"
      [] key = "RECEIPT" -> "SAMDA/RCT/"

\* the tax profiles: the seeded one, and a later-dated one an administrator adds
ProfileNames == {"STD", "ALT"}
NoProfile == "none"

ProfileRates(name) ==
    CASE name = "STD" -> [vat_rate |-> 1500, nhil_rate |-> 250, getfund_rate |-> 250]
      [] name = "ALT" -> [vat_rate |-> 1000, nhil_rate |-> 0, getfund_rate |-> 0]

\* order_by("-effective_from"): ALT is dated after STD
EffectiveRank(name) == IF name = "ALT" THEN 2 ELSE 1

\* ---------------------------------------------------------- pure functions

\* Decimal.quantize(Decimal("0.01")) under the default context: ROUND_HALF_EVEN.
\* num / den rounded to an integer, for num >= 0 and den > 0.
Quantize(num, den) ==
    LET q == num \div den
        r == num % den
    IN  IF 2 * r < den THEN q
        ELSE IF 2 * r > den THEN q + 1
        ELSE IF q % 2 = 0 THEN q ELSE q + 1

\* InvoiceLine.line_total: (qty * unit_price).quantize(0.01), in hundredths
line_total(ln) == Quantize(ln.qty * ln.unit_price, 100)

RECURSIVE SumLines(_)
SumLines(lines) ==
    IF lines = << >> THEN 0
    ELSE line_total(Head(lines)) + SumLines(Tail(lines))

\* TaxProfile.objects.filter(is_active=True).order_by("-effective_from").first()
ActiveProfile(active) ==
    IF active = {} THEN NoProfile
    ELSE CHOOSE a \in active : \A b \in active : EffectiveRank(b) <= EffectiveRank(a)

\* the row the profile query returns when no profile is active: None
NoProfileRow == [none |-> TRUE]

\* the taxes applied whatever the invoice's type
TaxedAnyType(inv, tp) == tp # NoProfileRow

\* "if self.invoice_type == self.InvoiceType.VAT: ... if tp:"
Taxed(inv, tp) == inv.invoice_type = "VAT" /\ tp # NoProfileRow

\* (subtotal * rate).quantize(Decimal("0.01")): hundredths times ten-thousandths
TaxOf(subtotal, rate) == Quantize(subtotal * rate, 10000)

\* a total that leaves out the last levy
TotalWithoutGetfund(subtotal, vat, nhil, getfund) == subtotal + vat + nhil

\* "total = (subtotal + vat + nhil + getfund).quantize(Decimal("0.01"))": the
\* terms are hundredths
TotalOf(subtotal, vat, nhil, getfund) ==
    Quantize((subtotal + vat + nhil + getfund) * 100, 100)

\* Invoice.recompute_totals once tp is read: tp is the profile's row (its
\* rates) or NoProfileRow
recompute_totals_with(inv, tp) ==
    LET subtotal == SumLines(inv.lines)
        vat == IF Taxed(inv, tp) THEN TaxOf(subtotal, tp.vat_rate) ELSE 0
        nhil == IF Taxed(inv, tp) THEN TaxOf(subtotal, tp.nhil_rate) ELSE 0
        getfund == IF Taxed(inv, tp) THEN TaxOf(subtotal, tp.getfund_rate) ELSE 0
    IN  [inv EXCEPT !.subtotal = subtotal, !.vat = vat, !.nhil = nhil,
                    !.getfund = getfund,
                    !.total = TotalOf(subtotal, vat, nhil, getfund)]

\* Invoice.recompute_totals: the invoice with its cached totals recomputed from
\* its lines and the tax profile (its own, else the active one)
recompute_totals(inv, active) ==
    LET name == IF inv.tax_profile # NoProfile THEN inv.tax_profile
                ELSE ActiveProfile(active)
    IN  recompute_totals_with(inv, IF name = NoProfile THEN NoProfileRow
                                   ELSE ProfileRates(name))

\* f"{number:06d}": the decimal digits of number, zero-padded to 6
RECURSIVE Digits(_)
Digits(n) == IF n < 10 THEN << n >> ELSE Append(Digits(n \div 10), n % 10)

RECURSIVE ZeroPad(_, _)
ZeroPad(ds, width) == IF Len(ds) >= width THEN ds ELSE ZeroPad(<< 0 >> \o ds, width)

\* f"{seq.prefix}{number:06d}": a document number is the prefix followed by the
\* digits; the pair determines the string and the string the pair, digits
\* being digits and a prefix ending in "/"
FormatNumber(prefix, number) == [prefix |-> prefix, digits |-> ZeroPad(Digits(number), 6)]

\* the empty string: the number of an unnumbered document
EmptyNo == [prefix |-> "", digits |-> << >>]

RECURSIVE SumAmounts(_)
SumAmounts(allocs) ==
    IF allocs = << >> THEN 0 ELSE Head(allocs).amount + SumAmounts(Tail(allocs))

\* invoice.allocations.all() / payment.allocations.all(), in insertion order
AllocationsOfInvoice(allocs, i) == SelectSeq(allocs, LAMBDA a : a.invoice = i)
AllocationsOfPayment(allocs, p) == SelectSeq(allocs, LAMBDA a : a.payment = p)

\* Invoice.amount_paid, Invoice.balance_due
amount_paid(allocs, i) == SumAmounts(AllocationsOfInvoice(allocs, i))
balance_due(inv, allocs, i) == inv.total - amount_paid(allocs, i)

\* ------------------------------------------------------------------- state

VARIABLES
    seq,             \* DocumentSequence rows: key -> [exists, prefix, next_number]
    seqLock,         \* key -> the worker whose transaction holds the row's lock
    handed,          \* key -> the numbers DocumentSequence.next returned to committed callers
    activeProfiles,  \* the TaxProfile rows with is_active
    profileChanges,  \* administrative changes made so far
    invoices,        \* Invoice rows (with their lines): pk -> row
    rowLock,         \* invoice pk -> the worker whose transaction wrote the row
    payments,        \* Payment rows: pk -> row
    allocations,     \* PaymentAllocation rows, in insertion order
    receipts,        \* Receipt rows
    audit,           \* AuditLog rows, a bag
    pc,              \* worker -> its position in the request it handles
    loc,             \* worker -> the objects its request holds in memory
    response,        \* the response of the request the last step finished, if it finished one
    calc             \* one call of recompute_totals: the invoice, the profile it reads, done or not

vars == << seq, seqLock, handed, activeProfiles, profileChanges, invoices, rowLock,
           payments, allocations, receipts, audit, pc, loc, response, calc >>

database == << seq, handed, activeProfiles, profileChanges, invoices, payments,
               allocations, receipts, audit >>

InvoicePks == 1 .. MaxRows
PaymentPks == 1 .. MaxRows

NullInvoice ==
    [invoice_type |-> "", status |-> "", invoice_no |-> EmptyNo, tax_profile |-> NoProfile,
     lines |-> << >>, subtotal |-> 0, vat |-> 0, nhil |-> 0, getfund |-> 0, total |-> 0]

\* a worker between requests
IdleLoc ==
    [payment |-> 0, invoice |-> 0, amount |-> 0, inv |-> NullInvoice,
     key |-> "", number |-> 0, no |-> EmptyNo,
     pend |-> [i \in InvoicePks |-> NullInvoice]]

NoResponse == [kind |-> "none", no |-> EmptyNo, invoice |-> 0, payment |-> 0]

\* the response of a finished request: what happened, on which objects, with
\* which document number
Outcome(kind, l) ==
    [kind |-> kind, no |-> l.no, invoice |-> l.invoice, payment |-> l.payment]

InitDatabase ==
    /\ seq = [k \in Keys |-> [exists |-> FALSE, prefix |-> "", next_number |-> 0]]
    /\ seqLock = [k \in Keys |-> NoWorker]
    /\ handed = [k \in Keys |-> << >>]
    /\ activeProfiles = {}
    /\ profileChanges = 0
    /\ invoices = << >>
    /\ rowLock = [i \in InvoicePks |-> NoWorker]
    /\ payments = << >>
    /\ allocations = << >>
    /\ receipts = {}
    /\ audit = EmptyBag
    /\ pc = [w \in Workers |-> "idle"]
    /\ loc = [w \in Workers |-> IdleLoc]
    /\ response = NoResponse

NoCalc == [inv |-> NullInvoice, tp |-> NoProfileRow, done |-> FALSE]

Init ==
    /\ InitDatabase
    /\ calc = NoCalc

\* ------------------------------------------------- bootstrap, administration

\* seed_samda_defaults: the standard profile made active, the three counters
\* created with their prefixes (an existing counter keeps its next_number)
Seed ==
    /\ \A k \in Keys : seqLock[k] = NoWorker
    /\ activeProfiles' = activeProfiles \cup {"STD"}
    /\ seq' = [k \in Keys |->
                 IF seq[k].exists THEN [seq[k] EXCEPT !.prefix = SeedPrefix(k)]
                 ELSE [exists |-> TRUE, prefix |-> SeedPrefix(k), next_number |-> 1]]
    /\ response' = NoResponse
    /\ UNCHANGED << calc, seqLock, handed, profileChanges, invoices, rowLock, payments,
                    allocations, receipts, audit, pc, loc >>

\* the tax profile registry: an administrator switches a profile's is_active
ProfileChange(name) ==
    /\ profileChanges < MaxProfileChanges
    /\ profileChanges' = profileChanges + 1
    /\ activeProfiles' = IF name \in activeProfiles THEN activeProfiles \ {name}
                         ELSE activeProfiles \cup {name}
    /\ response' = NoResponse
    /\ UNCHANGED << calc, seq, seqLock, handed, invoices, rowLock, payments, allocations,
                    receipts, audit, pc, loc >>

\* admin.InvoiceAdmin: an administrator sets an invoice's status to VOID (from
\* any status but PAID)
AdminVoid(i) ==
    /\ i \in DOMAIN invoices
    /\ rowLock[i] = NoWorker
    /\ invoices[i].status \notin {"PAID", "VOID"}
    /\ profileChanges < MaxProfileChanges
    /\ profileChanges' = profileChanges + 1
    /\ invoices' = [invoices EXCEPT ![i].status = "VOID"]
    /\ response' = NoResponse
    /\ UNCHANGED << calc, seq, seqLock, handed, activeProfiles, rowLock,
                    payments, allocations, receipts, audit, pc, loc >>

\* ------------------------------------------------------ single-step handlers

\* Invoice.invoice_no without unique=True
InvoiceNoUnchecked(no, pk) == TRUE

\* Invoice.invoice_no is unique: no other row holds this number
InvoiceNoUnique(no, pk) ==
    \A j \in DOMAIN invoices : j # pk => invoices[j].invoice_no # no

\* views.invoice_create (POST): the invoice and its lines inserted, its totals
\* recomputed and saved; the insert fails on the unique invoice_no
invoice_create(invoice_type, lines) ==
    LET pk == Len(invoices) + 1
        row == [NullInvoice EXCEPT !.invoice_type = invoice_type, !.status = "DRAFT",
                                   !.lines = lines]
    IN  /\ Len(invoices) + Len(payments) < MaxRows
        /\ InvoiceNoUnique(EmptyNo, pk)
        /\ invoices' = Append(invoices, recompute_totals(row, activeProfiles))
        /\ response' = NoResponse
        /\ UNCHANGED << calc, seq, seqLock, handed, activeProfiles, profileChanges, rowLock,
                        payments, allocations, receipts, audit, pc, loc >>

\* views.payment_create (POST)
payment_create(amount) ==
    /\ Len(invoices) + Len(payments) < MaxRows
    /\ payments' = Append(payments, [amount |-> amount])
    /\ response' = NoResponse
    /\ UNCHANGED << calc, seq, seqLock, handed, activeProfiles, profileChanges, invoices,
                    rowLock, allocations, receipts, audit, pc, loc >>

\* ------------------------------------------------------ DocumentSequence.next

\* the counter read without select_for_update()
SeqRowUnlocked(w, key) == TRUE

\* select_for_update(): the counter's row (or the key of the row being
\* inserted) is not locked by another transaction
SeqRowAvailable(w, key) == seqLock[key] \in {NoWorker, w}

\* the row DocumentSequence.next reads: get_or_create with its defaults
SeqRow(key) ==
    IF seq[key].exists THEN seq[key]
    ELSE [exists |-> TRUE, prefix |-> DefaultPrefix, next_number |-> 1]

\* the document number DocumentSequence.next returns
NextNumber(key) == FormatNumber(SeqRow(key).prefix, SeqRow(key).next_number)

\* DocumentSequence.next(key) inside the caller's transaction: the row locked
\* (created with next_number 1 when missing), its number read; the incremented
\* next_number is written at the caller's commit
DocumentSequenceNext(w, key, l) ==
    /\ SeqRowAvailable(w, key)
    /\ seqLock' = [seqLock EXCEPT ![key] = w]
    /\ loc' = [loc EXCEPT ![w] = [l EXCEPT !.key = key, !.number = SeqRow(key).next_number,
                                   !.no = NextNumber(key)]]

\* the counter saved without "seq.next_number += 1"
SeqCommittedNoIncrement(l) ==
    IF l.key = "" THEN seq
    ELSE [seq EXCEPT ![l.key] = [exists |-> TRUE, prefix |-> l.no.prefix,
                                 next_number |-> l.number]]

\* the counter as the committing transaction leaves it
SeqCommitted(l) ==
    IF l.key = "" THEN seq
    ELSE [seq EXCEPT ![l.key] = [exists |-> TRUE, prefix |-> l.no.prefix,
                                 next_number |-> l.number + 1]]

HandedCommitted(l) ==
    IF l.key = "" THEN handed ELSE [handed EXCEPT ![l.key] = Append(@, l.number)]

\* the end of a transaction: its locks released
Released(w, locks) == [k \in DOMAIN locks |-> IF locks[k] = w THEN NoWorker ELSE locks[k]]

Finish(w, kind, l) ==
    /\ pc' = [pc EXCEPT ![w] = "idle"]
    /\ response' = Outcome(kind, l)
    /\ loc' = [loc EXCEPT ![w] = IdleLoc]

\* a request reaches a free worker
Begin(w) ==
    /\ pc[w] = "idle"
    /\ \A v \in Workers : WorkerRank(v) < WorkerRank(w) => pc[v] # "idle"

\* ------------------------------------------------------------ invoice_issue

\* views.invoice_issue: get_object_or_404(Invoice, pk=pk)
invoice_issue_load(w, i) ==
    /\ Begin(w)
    /\ i \in DOMAIN invoices
    /\ pc' = [pc EXCEPT ![w] = "issue_loaded"]
    /\ response' = NoResponse
    /\ loc' = [loc EXCEPT ![w] = [IdleLoc EXCEPT !.invoice = i, !.inv = invoices[i]]]
    /\ UNCHANGED << calc, seq, seqLock, handed, activeProfiles, profileChanges, invoices,
                    rowLock, payments, allocations, receipts, audit >>

\* issue_invoice without its guard on the status
IsDraftUnchecked(inv) == TRUE

\* issue_invoice: "if invoice.status != Invoice.Status.DRAFT: return invoice"
IsDraft(inv) == inv.status = "DRAFT"

\* Invoice.assign_number_if_needed: the counter of the invoice's type
KeyOfType(invoice_type) == IF invoice_type = "VAT" THEN "INV_VAT" ELSE "INV_NONVAT"

\* issue_invoice, to the end of assign_number_if_needed
issue_invoice_enter(w) ==
    /\ pc[w] = "issue_loaded"
    /\ IF ~IsDraft(loc[w].inv)
       THEN /\ Finish(w, "noop", loc[w])
            /\ UNCHANGED seqLock
       ELSE /\ pc' = [pc EXCEPT ![w] = "issue_numbered"]
            /\ response' = NoResponse
            /\ IF loc[w].inv.invoice_no # EmptyNo
               THEN /\ loc' = [loc EXCEPT ![w].no = loc[w].inv.invoice_no]
                    /\ UNCHANGED seqLock
               ELSE DocumentSequenceNext(w, KeyOfType(loc[w].inv.invoice_type), loc[w])
    /\ UNCHANGED << calc, seq, handed, activeProfiles, profileChanges, invoices, rowLock,
                    payments, allocations, receipts, audit >>

AuditEvent(action, object_type, object_id) ==
    SetToBag({[action |-> action, object_type |-> object_type, object_id |-> object_id]})

\* the counter's increment committed on its own, outside the caller's transaction
RollbackKeepsWrites(before, written) == written

\* @transaction.atomic: an exception leaving the block undoes its writes
Rollback(before, written) == before

\* issue_invoice from recompute_totals to the commit: the row saved with its
\* number, totals and status ISSUED, the audit row created, the counter's
\* increment committed; an IntegrityError of the save, or an exception of
\* AuditLog.objects.create (audit_ok false), leaves the block and rolls all of
\* it back
issue_invoice_commit(w, audit_ok) ==
    LET l == loc[w]
        row == [recompute_totals([l.inv EXCEPT !.invoice_no = l.no], activeProfiles)
                  EXCEPT !.status = "ISSUED"]
    IN  /\ pc[w] = "issue_numbered"
        /\ rowLock[l.invoice] \in {NoWorker, w}
        /\ IF InvoiceNoUnique(l.no, l.invoice) /\ audit_ok
           THEN /\ invoices' = [invoices EXCEPT ![l.invoice] = row]
                /\ seq' = SeqCommitted(l)
                /\ handed' = HandedCommitted(l)
                /\ audit' = audit (+) AuditEvent("INVOICE_ISSUED", "Invoice", l.invoice)
                /\ Finish(w, "issued", l)
           ELSE /\ seq' = Rollback(seq, SeqCommitted(l))
                /\ UNCHANGED << invoices, handed, audit >>
                /\ Finish(w, IF InvoiceNoUnique(l.no, l.invoice) THEN "audit_failed"
                              ELSE "error", l)
        /\ seqLock' = Released(w, seqLock)
        /\ UNCHANGED << calc, activeProfiles, profileChanges, rowLock, payments, allocations,
                        receipts >>

\* ----------------------------------------------------------- invoice_detail

\* save(update_fields=[subtotal, vat, nhil, getfund, total, updated_at])
SaveTotals(row, inv) ==
    [row EXCEPT !.subtotal = inv.subtotal, !.vat = inv.vat, !.nhil = inv.nhil,
                !.getfund = inv.getfund, !.total = inv.total]

\* views.invoice_detail: the invoice loaded, recompute_totals, the cached
\* totals saved.  The totals are a function of the lines and the profile read
\* by recompute_totals and of the invoice's type, which no operation changes,
\* so the load and the save are one step.
invoice_detail(i) ==
    /\ i \in DOMAIN invoices
    /\ rowLock[i] = NoWorker
    /\ invoices' = [invoices EXCEPT ![i] =
                      SaveTotals(@, recompute_totals(invoices[i], activeProfiles))]
    /\ response' = NoResponse
    /\ UNCHANGED << calc, seq, seqLock, handed, activeProfiles, profileChanges, rowLock,
                    payments, allocations, receipts, audit, pc, loc >>

\* --------------------------------------------------------- payment_allocate

\* AllocationForm: Invoice.objects.filter(status__in=["ISSUED", "PART_PAID"])
Allocatable(inv) == inv.status \in {"ISSUED", "PART_PAID"}

\* "remaining = payment.amount - allocated_sum"
Remaining(p) == payments[p].amount - SumAmounts(AllocationsOfPayment(allocations, p))

\* "if amount > remaining": the guard on the payment
ExceedsRemaining(amount, remaining) == amount > remaining

\* "if amount > invoice.balance_due()": the guard on the invoice
ExceedsBalance(amount, balance) == amount > balance

\* views.payment_allocate (POST), to the guard on the remaining payment: the
\* payment's allocations read, the invoice loaded from the form's queryset by
\* form.is_valid().  (The two reads are taken as one step.)
payment_allocate_load(w, p, i, amount) ==
    LET l == [IdleLoc EXCEPT !.payment = p, !.invoice = i, !.amount = amount]
    IN  /\ Begin(w)
        /\ p \in DOMAIN payments
        /\ i \in DOMAIN invoices
        /\ IF ~Allocatable(invoices[i])
           THEN Finish(w, "form_invalid", l)
           ELSE IF ExceedsRemaining(amount, Remaining(p))
           THEN Finish(w, "rejected_remaining", l)
           ELSE /\ pc' = [pc EXCEPT ![w] = "alloc_valid"]
                /\ loc' = [loc EXCEPT ![w] = [l EXCEPT !.inv = invoices[i]]]
                /\ response' = NoResponse
        /\ UNCHANGED << calc, seq, seqLock, handed, activeProfiles, profileChanges, invoices,
                        rowLock, payments, allocations, receipts, audit >>

\* invoice.recompute_totals(); invoice.save(): every field of the loaded
\* object written back; then the guard on invoice.balance_due(), which reads
\* the invoice's allocations.  (The save and the read are taken as one step.)
\* The save fails (IntegrityError) when the number it writes back is by now
\* another invoice's.
payment_allocate_check(w) ==
    LET l == loc[w]
        inv == recompute_totals(l.inv, activeProfiles)
    IN  /\ pc[w] = "alloc_valid"
        /\ rowLock[l.invoice] \in {NoWorker, w}
        /\ IF ~InvoiceNoUnique(inv.invoice_no, l.invoice)
           THEN /\ UNCHANGED invoices
                /\ Finish(w, "error", l)
           ELSE /\ invoices' = [invoices EXCEPT ![l.invoice] = inv]
                /\ IF ExceedsBalance(l.amount, balance_due(inv, allocations, l.invoice))
                   THEN Finish(w, "rejected_balance", l)
                   ELSE /\ pc' = [pc EXCEPT ![w] = "alloc_checked"]
                        /\ loc' = [loc EXCEPT ![w].inv = NullInvoice]
                        /\ response' = NoResponse
        /\ UNCHANGED << calc, seq, seqLock, handed, activeProfiles, profileChanges, rowLock,
                        payments, allocations, receipts, audit >>

\* PaymentAllocation.objects.create(payment, invoice, amount)
payment_allocate_create(w) ==
    LET l == loc[w]
    IN  /\ pc[w] = "alloc_checked"
        /\ allocations' = Append(allocations,
                                 [payment |-> l.payment, invoice |-> l.invoice,
                                  amount |-> l.amount])
        /\ Finish(w, "allocated", l)
        /\ UNCHANGED << calc, seq, seqLock, handed, activeProfiles, profileChanges, invoices,
                        rowLock, payments, receipts, audit >>

\* ------------------------------------------------ create_receipt_for_payment

\* hasattr(payment, "receipt"): the payment's receipt row, read in the request
HasReceipt(p) == \E r \in receipts : r.payment = p

ReceiptOf(p) == CHOOSE r \in receipts : r.payment = p

\* views.payment_issue_receipt and the head of create_receipt_for_payment:
\* a payment that has a receipt gets that receipt back
create_receipt_enter(w, p) ==
    /\ Begin(w)
    /\ p \in DOMAIN payments
    /\ IF HasReceipt(p)
       THEN Finish(w, "receipt_existing",
                   [IdleLoc EXCEPT !.payment = p, !.no = ReceiptOf(p).receipt_no])
       ELSE /\ pc' = [pc EXCEPT ![w] = "receipt_new"]
            /\ loc' = [loc EXCEPT ![w] = [IdleLoc EXCEPT !.payment = p]]
            /\ response' = NoResponse
    /\ UNCHANGED << calc, seq, seqLock, handed, activeProfiles, profileChanges, invoices,
                    rowLock, payments, allocations, receipts, audit >>

\* Receipt.payment as a plain foreign key, Receipt.receipt_no not unique
ReceiptInsertUnchecked(p, no) == TRUE

\* Receipt.payment is one-to-one and Receipt.receipt_no unique: the insert is
\* refused (IntegrityError) when a row holds the payment or the number
ReceiptInsertAllowed(p, no) ==
    \A r \in receipts : r.payment # p /\ r.receipt_no # no

\* "if bal <= 0: PAID else: PART_PAID"
SettledStatus(bal) == IF bal <= 0 THEN "PAID" ELSE "PART_PAID"

\* the loop over payment.allocations.select_related("invoice"): each
\* allocation's invoice, as the query read it, recomputed, its status set from
\* its balance due, and saved; a later allocation of the same invoice saves
\* over an earlier one.  The rows the transaction will hold, by invoice.
RECURSIVE Settled(_, _)
Settled(allocs, pend) ==
    IF allocs = << >> THEN pend
    ELSE LET i == Head(allocs).invoice
             inv == recompute_totals(invoices[i], activeProfiles)
             row == [inv EXCEPT !.status = SettledStatus(balance_due(inv, allocations, i))]
         IN  Settled(Tail(allocs), [pend EXCEPT ![i] = row])

\* Receipt(payment=payment); receipt.assign_number_if_needed(); receipt.save();
\* the loop over the payment's allocations.  (The counter's lock is taken, and
\* the allocations and invoices are read, in one step: nothing another worker
\* does can tell the lock is held but another caller of the same counter.)
\* An IntegrityError of receipt.save() rolls the transaction back.
create_receipt_settle(w) ==
    LET l == loc[w]
        mine == AllocationsOfPayment(allocations, l.payment)
        touched == { mine[k].invoice : k \in DOMAIN mine }
    IN  /\ pc[w] = "receipt_new"
        /\ SeqRowAvailable(w, "RECEIPT")
        /\ IF ReceiptInsertAllowed(l.payment, NextNumber("RECEIPT"))
           THEN /\ DocumentSequenceNext(w, "RECEIPT",
                                        [l EXCEPT !.pend = Settled(mine, l.pend)])
                /\ \A i \in touched : rowLock[i] \in {NoWorker, w}
                /\ rowLock' = [i \in InvoicePks |-> IF i \in touched THEN w ELSE rowLock[i]]
                /\ pc' = [pc EXCEPT ![w] = "receipt_settled"]
                /\ response' = NoResponse
           ELSE /\ Finish(w, "error", l)
                /\ UNCHANGED << seqLock, rowLock >>
        /\ UNCHANGED << calc, seq, handed, activeProfiles, profileChanges, invoices,
                        payments, allocations, receipts, audit >>

\* the end of create_receipt_for_payment: the audit row and the commit; an
\* exception of AuditLog.objects.create (audit_ok false) leaves the block and
\* rolls the transaction back
create_receipt_commit(w, audit_ok) ==
    LET l == loc[w]
    IN  /\ pc[w] = "receipt_settled"
        /\ IF audit_ok
           THEN /\ invoices' = [i \in DOMAIN invoices |->
                                  IF rowLock[i] = w THEN l.pend[i] ELSE invoices[i]]
                /\ receipts' = receipts \cup {[payment |-> l.payment, receipt_no |-> l.no]}
                /\ seq' = SeqCommitted(l)
                /\ handed' = HandedCommitted(l)
                /\ audit' = audit (+) AuditEvent("RECEIPT_ISSUED", "Receipt", l.payment)
                /\ Finish(w, "receipt_issued", l)
           ELSE /\ seq' = Rollback(seq, SeqCommitted(l))
                /\ UNCHANGED << invoices, receipts, handed, audit >>
                /\ Finish(w, "audit_failed", l)
        /\ seqLock' = Released(w, seqLock)
        /\ rowLock' = Released(w, rowLock)
        /\ UNCHANGED << calc, activeProfiles, profileChanges, payments, allocations >>

\* ------------------------------------------------- recompute_totals, alone

\* the lines of the invoices recompute_totals is applied to: quantity and
\* unit price in hundredths
CalcLines ==
    { [qty |-> 200, unit_price |-> 5000], [qty |-> 100, unit_price |-> 2500],
      [qty |-> 50, unit_price |-> 1], [qty |-> 150, unit_price |-> 333] }

CalcLineSets == UNION { [1 .. n -> CalcLines] : n \in 0 .. MaxLines }

\* the profiles recompute_totals may read: rates in ten-thousandths
CalcProfiles ==
    [vat_rate : {0, 1500, 1250}, nhil_rate : {0, 250}, getfund_rate : {0, 250}]

InitTotals ==
    /\ InitDatabase
    /\ calc \in { [inv |-> [NullInvoice EXCEPT !.invoice_type = t, !.status = "DRAFT",
                                                !.lines = lines],
                    tp |-> tp, done |-> FALSE] :
                     t \in {"VAT", "NONVAT"}, lines \in CalcLineSets,
                     tp \in CalcProfiles \cup {NoProfileRow} }

\* invoice.recompute_totals()
Recompute ==
    /\ ~calc.done
    /\ calc' = [calc EXCEPT !.inv = recompute_totals_with(calc.inv, calc.tp), !.done = TRUE]
    /\ UNCHANGED << seq, seqLock, handed, activeProfiles, profileChanges, invoices,
                    rowLock, payments, allocations, receipts, audit, pc, loc, response >>

NextTotals == Recompute

SpecTotals == InitTotals /\ [][NextTotals]_vars

\* ------------------------------------------------------------ specification

Next ==
    \/ Seed
    \/ \E name \in ProfileNames : ProfileChange(name)
    \/ \E t \in {"VAT", "NONVAT"}, lines \in LineSets : invoice_create(t, lines)
    \/ \E amount \in PaymentAmounts : payment_create(amount)
    \/ \E w \in Workers, i \in InvoicePks : invoice_issue_load(w, i)
    \/ \E w \in Workers : issue_invoice_enter(w)
    \/ \E w \in Workers, audit_ok \in BOOLEAN : issue_invoice_commit(w, audit_ok)
    \/ \E i \in InvoicePks : invoice_detail(i)
    \/ \E w \in Workers, p \in PaymentPks, i \in InvoicePks, amount \in Amounts :
          payment_allocate_load(w, p, i, amount)
    \/ \E w \in Workers : payment_allocate_check(w)
    \/ \E w \in Workers : payment_allocate_create(w)
    \/ \E w \in Workers, p \in PaymentPks : create_receipt_enter(w, p)
    \/ \E w \in Workers : create_receipt_settle(w)
    \/ \E w \in Workers, audit_ok \in BOOLEAN : create_receipt_commit(w, audit_ok)
    \/ \E i \in InvoicePks : AdminVoid(i)

Spec == Init /\ [][Next]_vars

\* -------------------------------------------------------------- properties

Totals(inv) == << inv.subtotal, inv.vat, inv.nhil, inv.getfund, inv.total >>

\* C1: for every invoice, in every reachable state, the sum of the amounts of
\* its allocations is at most the invoice's total (two concurrent allocations
\* that jointly exceed the balance due do not both create a row).
C1_InvoiceNeverOverAllocated ==
    \A i \in DOMAIN invoices : amount_paid(allocations, i) <= invoices[i].total

\* C2: for every payment, in every reachable state, the sum of the amounts of
\* its allocations is at most the payment's amount.
C2_PaymentNeverOverAllocated ==
    \A p \in DOMAIN payments :
        SumAmounts(AllocationsOfPayment(allocations, p)) <= payments[p].amount

\* the workers whose running transaction holds a number of the key's counter
Holding(key) == { w \in Workers : loc[w].key = key }

\* C3: the numbers DocumentSequence.next(key) has returned, to the callers
\* whose transaction committed and to those whose transaction is running, are
\* pairwise distinct, for every key and under every interleaving, also when
\* the key's row did not exist at the calls.
C3_NumbersDistinct ==
    \A key \in Keys :
        /\ \A j, k \in DOMAIN handed[key] : j # k => handed[key][j] # handed[key][k]
        /\ \A w \in Holding(key) : \A j \in DOMAIN handed[key] :
              handed[key][j] # loc[w].number
        /\ \A w, v \in Holding(key) : w # v => loc[w].number # loc[v].number

\* worker v is about to call DocumentSequence.next(key)
AboutToCall(v, key) ==
    \/ /\ pc[v] = "issue_loaded"
       /\ loc[v].inv.status = "DRAFT"
       /\ loc[v].inv.invoice_no = EmptyNo
       /\ KeyOfType(loc[v].inv.invoice_type) = key
    \/ /\ pc[v] = "receipt_new"
       /\ key = "RECEIPT"

\* C3 witness: a counter whose row the first call created; that call committed
\* number 1, a second caller holds number 2 in its running transaction and a
\* third call waits for the row.
C3_Witness ==
    \E w, v \in Workers :
        /\ w # v
        /\ loc[w].key # ""
        /\ loc[w].number = 2
        /\ loc[w].no.prefix = DefaultPrefix
        /\ handed[loc[w].key] = << 1 >>
        /\ seqLock[loc[w].key] = w
        /\ AboutToCall(v, loc[w].key)

\* C4: an invoice that has an allocation carries the status recomputed from
\* its balance (PAID when the balance is <= 0, otherwise PART_PAID): no state
\* shows the allocation without the status update.
C4_AllocationWithStatus ==
    \A i \in DOMAIN invoices :
        AllocationsOfInvoice(allocations, i) # << >>
            => invoices[i].status =
                 (IF balance_due(invoices[i], allocations, i) <= 0 THEN "PAID"
                  ELSE "PART_PAID")

\* C5: for every issued invoice: balance_due <= 0 implies PAID; 0 < balance_due
\* < total implies PART_PAID; balance_due = total with no allocations implies
\* ISSUED.
C5_StatusMatchesBalance ==
    \A i \in DOMAIN invoices :
        LET inv == invoices[i]
            bal == balance_due(inv, allocations, i)
        IN  inv.status \in {"ISSUED", "PART_PAID", "PAID"} =>
              /\ bal <= 0 => inv.status = "PAID"
              /\ (0 < bal /\ bal < inv.total) => inv.status = "PART_PAID"
              /\ (bal = inv.total /\ AllocationsOfInvoice(allocations, i) = << >>)
                    => inv.status = "ISSUED"

\* C6: once a VAT invoice is issued, its vat, nhil, getfund and total never
\* change, whatever operation follows and whichever profile is active.
C6_IssuedTotalsFrozen ==
    [][\A i \in DOMAIN invoices :
          (invoices[i].invoice_type = "VAT" /\ invoices[i].status # "DRAFT")
              => Totals(invoices'[i]) = Totals(invoices[i])]_vars

\* C7: issue_invoice on an invoice whose status is not DRAFT changes nothing:
\* every step of a worker issuing an invoice it loaded with another status
\* leaves the invoices, the counters and the audit log as they are, and the
\* request ends as a no-op.
C7_IssueNonDraftIsNoOp ==
    [][\A w \in Workers :
          (/\ pc[w] \in {"issue_loaded", "issue_numbered"}
           /\ loc[w].inv.status # "DRAFT"
           /\ pc'[w] # pc[w])
              => /\ invoices' = invoices
                 /\ seq' = seq
                 /\ handed' = handed
                 /\ audit' = audit
                 /\ seqLock' = seqLock
                 /\ response'.kind = "noop"]_vars

\* C7 witness: issue_invoice has just returned without effect for an invoice
\* that is stored with a status other than DRAFT.
C7_Witness ==
    /\ response.kind = "noop"
    /\ invoices[response.invoice].status # "DRAFT"
    /\ invoices[response.invoice].invoice_no # EmptyNo

\* C8: an invoice's stored invoice_no, once non-empty, never changes.
C8_NumberAssignedOnce ==
    [][\A i \in DOMAIN invoices :
          invoices[i].invoice_no # EmptyNo
              => invoices'[i].invoice_no = invoices[i].invoice_no]_vars

\* the RECEIPT numbers consumed: the committed counter's advance
ReceiptNumbersConsumed ==
    IF seq["RECEIPT"].exists THEN seq["RECEIPT"].next_number - 1 ELSE 0

\* C9: every payment has at most one receipt and every receipt consumed one
\* RECEIPT number, in every reachable state (two concurrent requests for one
\* payment leave one receipt and one consumed number); a request for a payment
\* that has a receipt answers with that receipt and leaves the counter and the
\* receipts unchanged.
C9_ReceiptIdempotent ==
    /\ [](/\ \A p \in DOMAIN payments :
                Cardinality({ r \in receipts : r.payment = p }) <= 1
          /\ ReceiptNumbersConsumed = Cardinality(receipts)
          /\ response.kind = "receipt_existing"
                => [payment |-> response.payment, receipt_no |-> response.no] \in receipts)
    /\ [][response'.kind = "receipt_existing"
             => (seq' = seq /\ receipts' = receipts /\ seqLock' = seqLock)]_vars

\* C9 witness: of two concurrent requests for one payment, one has committed
\* the receipt with number 1 and the other has just failed on the one-to-one
\* constraint, its number rolled back.
C9_Witness ==
    /\ response.kind = "error"
    /\ response.payment \in DOMAIN payments
    /\ Cardinality({ r \in receipts : r.payment = response.payment }) = 1
    /\ seq["RECEIPT"].next_number = 2

\* C10: a rejected allocation mutates no state: the step in which
\* payment_allocate rejects a request leaves every stored invoice, payment and
\* allocation as it was.
C10_RejectionMutatesNothing ==
    [][response'.kind \in {"rejected_remaining", "rejected_balance"}
          => (invoices' = invoices /\ payments' = payments
              /\ allocations' = allocations)]_vars

\* the numbers consumed from a key's counter: the committed counter's advance
NumbersConsumed(key) == IF seq[key].exists THEN seq[key].next_number - 1 ELSE 0

RECURSIVE CopiesOfAll(_, _)
CopiesOfAll(events, bag) ==
    IF events = {} THEN 0
    ELSE LET e == CHOOSE x \in events : TRUE
         IN  CopiesIn(e, bag) + CopiesOfAll(events \ {e}, bag)

\* the audit rows of an action
AuditRows(action) ==
    CopiesOfAll({ e \in BagToSet(audit) : e.action = action }, audit)

\* C11: issue_invoice is all-or-nothing: the step in which a call that holds
\* its number fails on the save leaves the committed counters, the stored
\* invoices and the audit log as they were, and in every state the numbers
\* consumed from the invoice counters are as many as the committed issues
\* (no counter has advanced for an invoice that stayed DRAFT and unnumbered).
C11_IssueAllOrNothing ==
    /\ [](NumbersConsumed("INV_VAT") + NumbersConsumed("INV_NONVAT")
            = AuditRows("INVOICE_ISSUED"))
    /\ [][(response'.kind = "error" /\ response'.invoice # 0)
             => (seq' = seq /\ invoices' = invoices /\ audit' = audit)]_vars

\* C11 witness: a call drew a number, failed on the save of the invoice, and
\* the invoice is stored DRAFT and unnumbered with its counter not advanced.
C11_Witness ==
    /\ response.kind = "error"
    /\ response.invoice \in DOMAIN invoices
    /\ response.no # EmptyNo
    /\ invoices[response.invoice].status = "DRAFT"
    /\ invoices[response.invoice].invoice_no = EmptyNo
    /\ NumbersConsumed(KeyOfType(invoices[response.invoice].invoice_type)) = 0

\* C12: after a successful create_receipt_for_payment every invoice that has
\* an allocation from the payment is re-settled: its cached totals are the
\* recomputed ones and its stored status is PAID when its balance due is <= 0
\* and PART_PAID otherwise.
C12_ReceiptSettlesInvoices ==
    response.kind = "receipt_issued" =>
        \A i \in DOMAIN invoices :
            (\E k \in DOMAIN allocations :
                 allocations[k].payment = response.payment /\ allocations[k].invoice = i)
               => /\ Totals(invoices[i]) = Totals(recompute_totals(invoices[i], activeProfiles))
                  /\ invoices[i].status =
                       (IF balance_due(invoices[i], allocations, i) <= 0 THEN "PAID"
                        ELSE "PART_PAID")

\* the status changes the lifecycle allows, the administrative VOID included
LifecycleSteps ==
    { << "DRAFT", "ISSUED" >>, << "ISSUED", "PART_PAID" >>, << "ISSUED", "PAID" >>,
      << "PART_PAID", "PAID" >>, << "PAID", "PART_PAID" >>,
      << "DRAFT", "VOID" >>, << "ISSUED", "VOID" >>, << "PART_PAID", "VOID" >> }

\* C13: the status of an invoice only moves forward: in every step an invoice
\* keeps its status or takes one of the transitions DRAFT to ISSUED, ISSUED to
\* PART_PAID or PAID, PART_PAID to PAID or back (or is voided); it never
\* returns to DRAFT once issued nor to ISSUED once it has an allocation.
\* (What becomes of a VOID invoice is C17's.)
C13_StatusLifecycle ==
    [][\A i \in DOMAIN invoices :
          \/ invoices[i].status = "VOID"
          \/ invoices'[i].status = invoices[i].status
          \/ << invoices[i].status, invoices'[i].status >> \in LifecycleSteps]_vars

\* C14: after recompute_totals the cached total is exactly subtotal + vat +
\* nhil + getfund (in hundredths), for every set of lines and every rate
\* triple.
C14_TotalIsSum ==
    calc.done =>
        calc.inv.total = calc.inv.subtotal + calc.inv.vat + calc.inv.nhil + calc.inv.getfund

\* C14 witness: a VAT invoice of two lines recomputed under a profile with
\* three positive rates, every levy positive.
C14_Witness ==
    /\ calc.done
    /\ calc.inv.invoice_type = "VAT"
    /\ Len(calc.inv.lines) = 2
    /\ calc.inv.vat > 0 /\ calc.inv.nhil > 0 /\ calc.inv.getfund > 0

\* C15: after recompute_totals a NON-VAT invoice has vat = nhil = getfund = 0
\* and total = subtotal, whichever profile recompute_totals reads.
C15_NonVatUntaxed ==
    (calc.done /\ calc.inv.invoice_type = "NONVAT") =>
        /\ calc.inv.vat = 0 /\ calc.inv.nhil = 0 /\ calc.inv.getfund = 0
        /\ calc.inv.total = calc.inv.subtotal

\* C15 witness: a NON-VAT invoice with a positive subtotal recomputed while a
\* profile with positive rates is there to read.
C15_Witness ==
    /\ calc.done
    /\ calc.inv.invoice_type = "NONVAT"
    /\ calc.inv.subtotal > 0
    /\ calc.tp # NoProfileRow
    /\ calc.tp.vat_rate > 0 /\ calc.tp.nhil_rate > 0 /\ calc.tp.getfund_rate > 0

\* C16: for the VAT invoice with lines (2 x 50.00) and (1 x 25.00) under rates
\* 0.15, 0.025, 0.025, recompute_totals yields subtotal 125.00, vat 18.75,
\* nhil 3.13, getfund 3.13 and total 150.01.
C16_Scenario ==
    (/\ calc.done
     /\ calc.inv.invoice_type = "VAT"
     /\ calc.inv.lines = << [qty |-> 200, unit_price |-> 5000],
                            [qty |-> 100, unit_price |-> 2500] >>
     /\ calc.tp = [vat_rate |-> 1500, nhil_rate |-> 250, getfund_rate |-> 250])
        => Totals(calc.inv) = << 12500, 1875, 313, 313, 15001 >>

\* the exact sum of qty * unit_price over the lines, in ten-thousandths
RECURSIVE ExactSum(_)
ExactSum(lines) ==
    IF lines = << >> THEN 0
    ELSE Head(lines).qty * Head(lines).unit_price + ExactSum(Tail(lines))

\* num / den rounded to an integer, a half rounded up
RoundHalfUp(num, den) == (2 * num + den) \div (2 * den)

\* C18: the subtotal recompute_totals computes is the exact sum of qty *
\* unit_price over the lines rounded once to hundredths (a half rounded up, or
\* to even), the lines not being rounded one by one.
C18_SubtotalRoundedOnce ==
    calc.done =>
        calc.inv.subtotal \in { RoundHalfUp(ExactSum(calc.inv.lines), 100),
                                Quantize(ExactSum(calc.inv.lines), 100) }

\* C17: a VOID invoice stays VOID and gains no allocation, and a DRAFT invoice
\* gains no allocation: no step changes the status of a VOID invoice or adds an
\* allocation against an invoice that is VOID or DRAFT.
C17_VoidIsTerminal ==
    [][\A i \in DOMAIN invoices :
          /\ invoices[i].status = "VOID" => invoices'[i].status = "VOID"
          /\ invoices[i].status \in {"VOID", "DRAFT"}
                => AllocationsOfInvoice(allocations', i) = AllocationsOfInvoice(allocations, i)]_vars

\* the number a sequence of decimal digits writes
RECURSIVE DigitsValue(_)
DigitsValue(ds) ==
    IF ds = << >> THEN 0
    ELSE 10 * DigitsValue(SubSeq(ds, 1, Len(ds) - 1)) + ds[Len(ds)]

\* C19: a committed DocumentSequence.next(key) returned the key's prefix and
\* the counter's next_number (1 for a key without counter) written with 6
\* digits, and leaves the committed next_number one higher; in every step the
\* committed next_number of every key does not decrease, a counter once
\* created stays, and a call on one key leaves the other keys' counters as
\* they are.
C19_NextIncrements ==
    [][\A key \in Keys :
          /\ seq[key].exists
                => (seq'[key].exists /\ seq'[key].next_number >= seq[key].next_number)
          /\ handed'[key] # handed[key]
                => LET number == handed'[key][Len(handed'[key])]
                   IN  /\ number = (IF seq[key].exists THEN seq[key].next_number ELSE 1)
                       /\ seq'[key].exists
                       /\ seq'[key].next_number = number + 1
                       /\ response'.no.prefix =
                            (IF seq[key].exists THEN seq[key].prefix ELSE DefaultPrefix)
                       /\ Len(response'.no.digits) = 6
                       /\ DigitsValue(response'.no.digits) = number
                       /\ \A other \in Keys \ {key} : seq'[other] = seq[other]]_vars

\* C19 witness: the first call on a key without counter has committed: it
\* returned the default prefix with 000001 and the counter stands at 2, while
\* another key's counter stands where its own calls left it.
C19_Witness ==
    \E key \in Keys :
        /\ handed[key] = << 1 >>
        /\ seq[key].next_number = 2
        /\ response.kind \in {"issued", "receipt_issued"}
        /\ response.no = [prefix |-> DefaultPrefix, digits |-> << 0, 0, 0, 0, 0, 1 >>]
        /\ \E other \in Keys \ {key} : seq[other].exists /\ seq[other].next_number = 2

\* C20: a failure of the audit sink does not undo the business transaction:
\* when AuditLog.objects.create has failed in issue_invoice the invoice is
\* stored ISSUED with its number, and when it has failed in
\* create_receipt_for_payment the payment has its receipt.
C20_AuditFailureKeepsBusiness ==
    response.kind = "audit_failed" =>
        /\ response.invoice # 0
              => /\ invoices[response.invoice].status = "ISSUED"
                 /\ invoices[response.invoice].invoice_no = response.no
        /\ response.payment # 0
              => [payment |-> response.payment, receipt_no |-> response.no] \in receipts

\* C21: in every reachable state the stored invoice_no of any two invoices
\* differ, the empty number included (so at most one invoice is stored
\* unnumbered), and every invoice whose status is ISSUED, PART_PAID or PAID
\* has a non-empty number: the prefix of the counter of its type (INV_VAT for
\* VAT, INV_NONVAT otherwise) and a number that counter handed out.
C21_InvoiceNumbersUnique ==
    /\ \A i, j \in DOMAIN invoices :
          i # j => invoices[i].invoice_no # invoices[j].invoice_no
    /\ Cardinality({ i \in DOMAIN invoices : invoices[i].invoice_no = EmptyNo }) <= 1
    /\ \A i \in DOMAIN invoices :
          invoices[i].status \in {"ISSUED", "PART_PAID", "PAID"}
             => LET key == KeyOfType(invoices[i].invoice_type)
                    no == invoices[i].invoice_no
                IN  /\ no # EmptyNo
                    /\ no.prefix \in {DefaultPrefix, SeedPrefix(key)}
                    /\ Len(no.digits) = 6
                    /\ \E k \in DOMAIN handed[key] : handed[key][k] = DigitsValue(no.digits)

\* C21 witness: a VAT and a NON-VAT invoice are both stored issued, each with
\* the first number of its own counter: the same digits under the two
\* counters' prefixes.
C21_Witness ==
    \E i, j \in DOMAIN invoices :
        /\ invoices[i].invoice_type = "VAT" /\ invoices[j].invoice_type = "NONVAT"
        /\ invoices[i].status = "ISSUED" /\ invoices[j].status = "ISSUED"
        /\ invoices[i].invoice_no.digits = << 0, 0, 0, 0, 0, 1 >>
        /\ invoices[j].invoice_no.digits = << 0, 0, 0, 0, 0, 1 >>
        /\ handed["INV_VAT"] = << 1 >> /\ handed["INV_NONVAT"] = << 1 >>

=============================================================================
